---------------------------- MODULE Spec2Model ----------------------------
(***************************************************************************)
(* astroMetric/metric.py: MAD, biweight_mean, biweight_scatter,            *)
(* outlier_rate, biweight_outlier_rate and loss over numpy float64 arrays. *)
(*                                                                         *)
(* Numbers are IEEE-754 binary64 values, computed as numpy computes them   *)
(* (round to nearest, ties to even, subnormals, signed zeros, inf, nan).   *)
(* A finite value is [k |-> "fin", s, m, e] and stands for                 *)
(* (-1)^s * m * 2^e, with m a natural number of at most 53 bits that is    *)
(* odd (or zero, then e = 0).  Naturals of arbitrary size are sequences of *)
(* limbs, least significant first; F(n) is the float of the integer n and  *)
(* Fx(n, e) the float n * 2^e.                                             *)
(***************************************************************************)
EXTENDS Integers, Sequences, FiniteSets, TLC

(***************************************************************************)
(* Naturals of arbitrary size (the mantissas of exact intermediate         *)
(* results): little-endian sequences of limbs in 0..Base-1 with no high    *)
(* zero limb; <<>> is zero.                                                *)
(***************************************************************************)
Base == 2^15

RECURSIVE BNorm(_)
BNorm(a) ==
  IF a = <<>> THEN <<>>
  ELSE IF a[Len(a)] = 0 THEN BNorm(SubSeq(a, 1, Len(a) - 1)) ELSE a

RECURSIVE BFromNat(_)
BFromNat(n) == IF n = 0 THEN <<>> ELSE <<n % Base>> \o BFromNat(n \div Base)

BLimb(a, i) == IF i <= Len(a) THEN a[i] ELSE 0

RECURSIVE BAddAt(_, _, _, _)
BAddAt(a, b, i, carry) ==
  IF i > Len(a) /\ i > Len(b)
  THEN (IF carry = 0 THEN <<>> ELSE <<carry>>)
  ELSE LET x == BLimb(a, i) + BLimb(b, i) + carry
       IN  <<x % Base>> \o BAddAt(a, b, i + 1, x \div Base)

BAdd(a, b) == BAddAt(a, b, 1, 0)

\* a - b for a >= b
RECURSIVE BSubAt(_, _, _, _)
BSubAt(a, b, i, borrow) ==
  IF i > Len(a) THEN <<>>
  ELSE LET x == a[i] - BLimb(b, i) - borrow
       IN  IF x < 0 THEN <<x + Base>> \o BSubAt(a, b, i + 1, 1)
                    ELSE <<x>> \o BSubAt(a, b, i + 1, 0)

BSub(a, b) == BNorm(BSubAt(a, b, 1, 0))

\* -1, 0, 1 as a < b, a = b, a > b
RECURSIVE BCmpAt(_, _, _)
BCmpAt(a, b, i) ==
  IF i = 0 THEN 0
  ELSE IF a[i] < b[i] THEN -1
  ELSE IF a[i] > b[i] THEN 1
  ELSE BCmpAt(a, b, i - 1)

BCmp(a, b) ==
  IF Len(a) < Len(b) THEN -1
  ELSE IF Len(a) > Len(b) THEN 1
  ELSE BCmpAt(a, b, Len(a))

RECURSIVE BMulSmallAt(_, _, _, _)
BMulSmallAt(a, d, i, carry) ==
  IF i > Len(a) THEN (IF carry = 0 THEN <<>> ELSE <<carry>>)
  ELSE LET x == a[i] * d + carry
       IN  <<x % Base>> \o BMulSmallAt(a, d, i + 1, x \div Base)

\* a * d for a limb d
BMulSmall(a, d) == IF d = 0 THEN <<>> ELSE BMulSmallAt(a, d, 1, 0)

RECURSIVE BShiftLimbs(_, _)
BShiftLimbs(a, q) ==
  IF a = <<>> \/ q <= 0 THEN a ELSE <<0>> \o BShiftLimbs(a, q - 1)

RECURSIVE BMul(_, _)
BMul(a, b) ==
  IF a = <<>> \/ b = <<>> THEN <<>>
  ELSE BAdd(BMulSmall(a, Head(b)), BShiftLimbs(BMul(a, Tail(b)), 1))

\* a * 2^n
BShl(a, n) == BShiftLimbs(BMulSmall(a, 2^(n % 15)), n \div 15)

\* floor(a / 2^n)
BShr(a, n) ==
  LET q == n \div 15
      r == n % 15
      p == 2^r
      t == 2^(15 - r)
  IN  IF q >= Len(a) THEN <<>>
      ELSE BNorm([i \in 1..(Len(a) - q) |->
                    (a[i + q] \div p) + (BLimb(a, i + q + 1) % p) * t])

RECURSIVE NatBitLen(_)
NatBitLen(n) == IF n = 0 THEN 0 ELSE 1 + NatBitLen(n \div 2)

BBitLen(a) == IF a = <<>> THEN 0 ELSE 15 * (Len(a) - 1) + NatBitLen(a[Len(a)])

\* bit i (from 0) of a
BBit(a, i) == (BLimb(a, (i \div 15) + 1) \div 2^(i % 15)) % 2

BIsOdd(a) == a # <<>> /\ a[1] % 2 = 1

\* the low n bits of a are all zero
BLowZero(a, n) == a = BShl(BShr(a, n), n)

RECURSIVE NatTz(_)
NatTz(n) == IF n % 2 = 1 THEN 0 ELSE 1 + NatTz(n \div 2)

\* the number of trailing zero bits of a # 0
RECURSIVE BTz(_)
BTz(a) == IF a[1] = 0 THEN 15 + BTz(Tail(a)) ELSE NatTz(a[1])

\* the largest limb d with d * b <= r, found bit by bit from bit i down
RECURSIVE BDigit(_, _, _, _)
BDigit(r, b, i, d) ==
  IF i < 0 THEN d
  ELSE LET c == d + 2^i
       IN  IF BCmp(BMulSmall(b, c), r) <= 0 THEN BDigit(r, b, i - 1, c)
                                            ELSE BDigit(r, b, i - 1, d)

\* floor(a / b) and whether the division leaves a remainder, for b # 0:
\* long division from limb i of a down, q and r the quotient and remainder
\* so far
RECURSIVE BDivAt(_, _, _, _, _)
BDivAt(a, b, i, q, r) ==
  IF i = 0 THEN [q |-> BNorm(q), inexact |-> r # <<>>]
  ELSE LET r2 == BNorm(<<a[i]>> \o r)
           d  == BDigit(r2, b, 14, 0)
           q2 == <<d>> \o q
           r3 == BSub(r2, BMulSmall(b, d))
       IN  IF Len(q2) >= 0 /\ Len(r3) >= 0 THEN BDivAt(a, b, i - 1, q2, r3)
           ELSE [q |-> <<>>, inexact |-> FALSE]

BDiv(a, b) == BDivAt(a, b, Len(a), <<>>, <<>>)

\* floor(sqrt(a)) by Newton's iteration from r >= sqrt(a)
RECURSIVE BSqrtFrom(_, _)
BSqrtFrom(a, r) ==
  LET y == BShr(BAdd(r, BDiv(a, r).q), 1)
  IN  IF BCmp(y, r) >= 0 THEN r ELSE BSqrtFrom(a, y)

BSqrt(a) ==
  IF a = <<>> THEN <<>> ELSE BSqrtFrom(a, BShl(<<1>>, (BBitLen(a) + 1) \div 2))

(***************************************************************************)
(* numpy.float64: IEEE-754 binary64.                                       *)
(***************************************************************************)
\* the bits of a significand
Prec == 53
\* the exponent of the smallest subnormal, 2^EMin
EMin == -1074
\* every finite value is below 2^EMax
EMax == 1024

NaN == [k |-> "nan"]
Inf(s) == [k |-> "inf", s |-> s]
Zero(s) == [k |-> "fin", s |-> s, m |-> <<>>, e |-> 0]

IsNaN(a) == a.k = "nan"
IsInf(a) == a.k = "inf"
IsFin(a) == a.k = "fin"
IsZero(a) == a.k = "fin" /\ a.m = <<>>

Max(i, j) == IF i >= j THEN i ELSE j
Min(i, j) == IF i <= j THEN i ELSE j
Xor(s, t) == (s + t) % 2

\* (-1)^s * m * 2^e for m # 0, in the form with m odd
Canon(s, m, e) ==
  LET tz == BTz(m) IN [k |-> "fin", s |-> s, m |-> BShr(m, tz), e |-> e + tz]

\* the float nearest to (-1)^s * m * 2^e, ties to even; overflow gives inf,
\* underflow a subnormal or zero
Round(s, m, e) ==
  LET shift == Max(BBitLen(m) - Prec, EMin - e)
      q0    == BShr(m, shift)
      up    == /\ BBit(m, shift - 1) = 1
               /\ (~BLowZero(m, shift - 1) \/ BIsOdd(q0))
      q     == IF up THEN BAdd(q0, <<1>>) ELSE q0
  IN  IF m = <<>> THEN Zero(s)
      ELSE IF shift <= 0
      THEN (IF BBitLen(m) + e > EMax THEN Inf(s) ELSE Canon(s, m, e))
      ELSE IF q = <<>> THEN Zero(s)
      ELSE IF BBitLen(q) + e + shift > EMax THEN Inf(s)
      ELSE Canon(s, q, e + shift)

\* the float next to (-1)^s * m * 2^e on the side of zero, or on the other
\* side when away holds; the value itself when it is a float
RoundToward(s, m, e, away) ==
  LET shift == Max(BBitLen(m) - Prec, EMin - e)
      q0    == BShr(m, shift)
      q     == IF away /\ ~BLowZero(m, shift) THEN BAdd(q0, <<1>>) ELSE q0
  IN  IF m = <<>> THEN Zero(s)
      ELSE IF shift <= 0
      THEN (IF BBitLen(m) + e > EMax THEN Inf(s) ELSE Canon(s, m, e))
      ELSE IF q = <<>> THEN Zero(s)
      ELSE IF BBitLen(q) + e + shift > EMax THEN Inf(s)
      ELSE Canon(s, q, e + shift)

\* the float nearest to a value strictly between m * 2^e and (m + 1) * 2^e,
\* for m of more than Prec + 1 bits
RoundInexact(s, m, e) == Round(s, BAdd(BShl(m, 2), <<1>>), e - 2)

\* the float of the integer n, and of n * 2^e
F(n) == IF n >= 0 THEN Round(0, BFromNat(n), 0) ELSE Round(1, BFromNat(-n), 0)
Fx(n, e) == IF n >= 0 THEN Round(0, BFromNat(n), e) ELSE Round(1, BFromNat(-n), e)

FNeg(a) == IF IsNaN(a) THEN a ELSE [a EXCEPT !.s = 1 - a.s]
FAbs(a) == IF IsNaN(a) THEN a ELSE [a EXCEPT !.s = 0]

\* -1, 0, 1 as |a| < |b|, |a| = |b|, |a| > |b|, for a and b not nan
CmpMag(a, b) ==
  IF IsInf(a) THEN (IF IsInf(b) THEN 0 ELSE 1)
  ELSE IF IsInf(b) THEN -1
  ELSE IF a.m = <<>> THEN (IF b.m = <<>> THEN 0 ELSE -1)
  ELSE IF b.m = <<>> THEN 1
  ELSE LET ta == BBitLen(a.m) + a.e
           tb == BBitLen(b.m) + b.e
           lo == Min(a.e, b.e)
       IN  IF ta < tb THEN -1
           ELSE IF ta > tb THEN 1
           ELSE BCmp(BShl(a.m, a.e - lo), BShl(b.m, b.e - lo))

\* -1, 0, 1 as a < b, a = b, a > b, for a and b not nan (-0 = +0)
Cmp(a, b) ==
  LET za == IsZero(a)
      zb == IsZero(b)
  IN  IF za /\ zb THEN 0
      ELSE IF za THEN (IF b.s = 0 THEN -1 ELSE 1)
      ELSE IF zb THEN (IF a.s = 0 THEN 1 ELSE -1)
      ELSE IF a.s # b.s THEN (IF a.s = 1 THEN -1 ELSE 1)
      ELSE IF a.s = 0 THEN CmpMag(a, b) ELSE CmpMag(b, a)

\* the comparisons of floats: every one is false of a nan
FLt(a, b) == ~IsNaN(a) /\ ~IsNaN(b) /\ Cmp(a, b) < 0
FLe(a, b) == ~IsNaN(a) /\ ~IsNaN(b) /\ Cmp(a, b) <= 0
FGt(a, b) == FLt(b, a)
FGe(a, b) == FLe(b, a)
FEq(a, b) == ~IsNaN(a) /\ ~IsNaN(b) /\ Cmp(a, b) = 0

\* how far the smaller of two addends is shifted at most: below that it only
\* decides the rounding
AlignMax == 2 * Prec + 4

\* a + b for finite nonzero a and b
AddFin(a, b) ==
  LET far == a.e - b.e > AlignMax \/ b.e - a.e > AlignMax
      lo  == IF far THEN Max(a.e, b.e) - Prec - 7 ELSE Min(a.e, b.e)
      am  == IF a.e >= lo THEN BShl(a.m, a.e - lo) ELSE <<1>>
      bm  == IF b.e >= lo THEN BShl(b.m, b.e - lo) ELSE <<1>>
      c   == BCmp(am, bm)
  IN  IF a.s = b.s THEN Round(a.s, BAdd(am, bm), lo)
      ELSE IF c = 0 THEN Zero(0)
      ELSE IF c > 0 THEN Round(a.s, BSub(am, bm), lo)
      ELSE Round(b.s, BSub(bm, am), lo)

FAdd(a, b) ==
  IF IsNaN(a) \/ IsNaN(b) THEN NaN
  ELSE IF IsInf(a) THEN (IF IsInf(b) /\ a.s # b.s THEN NaN ELSE a)
  ELSE IF IsInf(b) THEN b
  ELSE IF IsZero(a) /\ IsZero(b) THEN (IF a.s = 1 /\ b.s = 1 THEN Zero(1) ELSE Zero(0))
  ELSE IF IsZero(a) THEN b
  ELSE IF IsZero(b) THEN a
  ELSE AddFin(a, b)

FSub(a, b) == FAdd(a, FNeg(b))

FMul(a, b) ==
  IF IsNaN(a) \/ IsNaN(b) THEN NaN
  ELSE IF IsInf(a) \/ IsInf(b)
  THEN (IF IsZero(a) \/ IsZero(b) THEN NaN ELSE Inf(Xor(a.s, b.s)))
  ELSE Round(Xor(a.s, b.s), BMul(a.m, b.m), a.e + b.e)

\* a / b; a division by zero gives inf or nan (numpy warns, and goes on)
FDiv(a, b) ==
  IF IsNaN(a) \/ IsNaN(b) THEN NaN
  ELSE IF IsInf(a) THEN (IF IsInf(b) THEN NaN ELSE Inf(Xor(a.s, b.s)))
  ELSE IF IsInf(b) THEN Zero(Xor(a.s, b.s))
  ELSE IF IsZero(b) THEN (IF IsZero(a) THEN NaN ELSE Inf(Xor(a.s, b.s)))
  ELSE IF IsZero(a) THEN Zero(Xor(a.s, b.s))
  ELSE LET sh == Prec + 3 + BBitLen(b.m) - BBitLen(a.m)
           d  == BDiv(BShl(a.m, sh), b.m)
       IN  IF d.inexact THEN RoundInexact(Xor(a.s, b.s), d.q, a.e - b.e - sh)
                        ELSE Round(Xor(a.s, b.s), d.q, a.e - b.e - sh)

\* np.sqrt: nan for a negative number
FSqrt(a) ==
  IF IsNaN(a) THEN NaN
  ELSE IF IsZero(a) THEN a
  ELSE IF a.s = 1 THEN NaN
  ELSE IF IsInf(a) THEN a
  ELSE LET k0 == Max(0, 2 * Prec + 4 - BBitLen(a.m))
           k  == k0 + ((a.e - k0) % 2)
           m2 == BShl(a.m, k)
           r  == BSqrt(m2)
       IN  IF BMul(r, r) = m2 THEN Round(0, r, (a.e - k) \div 2)
                              ELSE RoundInexact(0, r, (a.e - k) \div 2)

BSquare(x) == BMul(x, x)

\* the floats that pow of the C library may give for the value m * 2^e: pow
\* is not correctly rounded, its error is below one unit in the last place,
\* so it gives the float below the value or the one above, and the value
\* itself when it is a float
PowNear(m, e) == {RoundToward(0, m, e, away) : away \in BOOLEAN}

\* a ** 4, numpy's pow(a, 4.0): the values a build may give
FPow4(a) ==
  IF IsNaN(a) THEN {NaN}
  ELSE IF IsInf(a) THEN {Inf(0)}
  ELSE PowNear(BSquare(BSquare(a.m)), 4 * a.e)

(***************************************************************************)
(* numpy arrays: a one-dimensional float64 array is a sequence of floats.  *)
(* A Python value is a scalar, an array or None.                           *)
(***************************************************************************)
None == [t |-> "none"]
Scalar(x) == [t |-> "scalar", v |-> x]
Array(a) == [t |-> "array", v |-> a]

\* a sorted with x put in its place (a stable insertion)
RECURSIVE Insert(_, _)
Insert(a, x) ==
  IF a = <<>> THEN <<x>>
  ELSE IF FLt(x, Head(a)) THEN <<x>> \o a
  ELSE <<Head(a)>> \o Insert(Tail(a), x)

RECURSIVE Sort(_)
Sort(a) == IF a = <<>> THEN <<>> ELSE Insert(Sort(SubSeq(a, 1, Len(a) - 1)), a[Len(a)])

\* The order in which np.sum adds the elements of an array, as a tree: the
\* element at a place, 0.0, or the sum of two trees.
Elt(i) == <<"elt", i>>
Plus(x, y) == <<"add", x, y>>

\* t plus the places i, i + step, ... up to last, one after the other
RECURSIVE Then(_, _, _, _)
Then(t, i, step, last) ==
  IF i > last THEN t ELSE Then(Plus(t, Elt(i)), i + step, step, last)

\* the eight accumulators of the n \div 8 blocks of eight places from lo on,
\* the j-th adding the j-th place of each block, combined as a tree, then
\* the places left over
BlockOrder(lo, n) ==
  Then(Plus(Plus(Plus(Then(Elt(lo), lo + 8, 8, lo + 8 * (n \div 8) - 1),
                      Then(Elt(lo + 1), lo + 9, 8, lo + 8 * (n \div 8) - 1)),
                 Plus(Then(Elt(lo + 2), lo + 10, 8, lo + 8 * (n \div 8) - 1),
                      Then(Elt(lo + 3), lo + 11, 8, lo + 8 * (n \div 8) - 1))),
            Plus(Plus(Then(Elt(lo + 4), lo + 12, 8, lo + 8 * (n \div 8) - 1),
                      Then(Elt(lo + 5), lo + 13, 8, lo + 8 * (n \div 8) - 1)),
                 Plus(Then(Elt(lo + 6), lo + 14, 8, lo + 8 * (n \div 8) - 1),
                      Then(Elt(lo + 7), lo + 15, 8, lo + 8 * (n \div 8) - 1)))),
       lo + 8 * (n \div 8), 1, lo + n - 1)

\* the blocks of numpy's pairwise summation hold at most PwBlock elements
PwBlock == 128

\* where n places, n > PwBlock, are cut in two: at half their number, less
\* what goes beyond a multiple of 8
PairwiseCut(n) == (n \div 2) - ((n \div 2) % 8)

\* numpy's pairwise summation of the n places of a contiguous array from lo
\* on: fewer than 8 are added to 0.0 one after the other, up to PwBlock go
\* through eight accumulators, more are cut in two
RECURSIVE PairwiseOrder(_, _)
PairwiseOrder(lo, n) ==
  IF n < 8 THEN Then(<<"zero">>, lo, 1, lo + n - 1)
  ELSE IF n <= PwBlock THEN BlockOrder(lo, n)
  ELSE Plus(PairwiseOrder(lo, PairwiseCut(n)),
            PairwiseOrder(lo + PairwiseCut(n), n - PairwiseCut(n)))

\* the value of a tree of sums over the array a
RECURSIVE SumIn(_, _)
SumIn(t, a) ==
  IF t[1] = "elt" THEN a[t[2]]
  ELSE IF t[1] = "zero" THEN Zero(0)
  ELSE FAdd(SumIn(t[2], a), SumIn(t[3], a))

\* np.sum: the identity 0.0 of the reduction plus the pairwise sum
Sum(a) == SumIn(Plus(<<"zero">>, PairwiseOrder(1, Len(a))), a)

\* floor(a) for a finite a
FFloor(a) ==
  IF ~IsFin(a) \/ a.e >= 0 THEN a
  ELSE IF a.s = 0 THEN Round(0, BShr(a.m, -a.e), 0)
  ELSE Round(1, BAdd(BShr(a.m, -a.e), <<1>>), 0)

\* the middle of a sorted array: its middle element, or its two middle
\* elements when their number is even
MiddleSlice(srt) ==
  IF Len(srt) % 2 = 1 THEN <<srt[(Len(srt) \div 2) + 1]>>
  ELSE <<srt[Len(srt) \div 2], srt[(Len(srt) \div 2) + 1]>>

\* Middle with // for /: the mean of the middle elements rounded down
MiddleFloorDiv(srt) ==
  FFloor(FDiv(Sum(MiddleSlice(srt)), F(Len(MiddleSlice(srt)))))

\* Middle without the mean: the upper of the two middle elements
MiddleUpper(srt) == srt[(Len(srt) \div 2) + 1]

\* np.mean: np.sum over the number of elements
Mean(a) == FDiv(Sum(a), F(Len(a)))

\* the median of a sorted array: np.mean of its middle, of one element as of
\* two, so that the median of [-0.0] is 0.0 + -0.0 = 0.0
Middle(srt) == Mean(MiddleSlice(srt))

\* np.median: nan for an empty array and for one that holds a nan
Median(a) ==
  IF Len(a) = 0 \/ \E i \in 1..Len(a) : IsNaN(a[i]) THEN NaN ELSE Middle(Sort(a))

\* MedianArg with overwrite_input=True: the array is sorted in place
MedianArgOverwritten(a) == Sort(a)

\* what a call np.median(a) leaves of the array a it is given:
\* overwrite_input is False by default, the array is as it was
MedianArg(a) == a

\* a[mask] for a boolean array mask: a new array of the elements selected
RECURSIVE Select(_, _)
Select(a, mask) ==
  IF a = <<>> THEN <<>>
  ELSE IF Head(mask) THEN <<Head(a)>> \o Select(Tail(a), Tail(mask))
  ELSE Select(Tail(a), Tail(mask))

\* np.sum of a boolean array: how many of its elements are True
RECURSIVE CountTrue(_)
CountTrue(mask) ==
  IF mask = <<>> THEN 0
  ELSE (IF Head(mask) THEN 1 ELSE 0) + CountTrue(Tail(mask))

\* the shapes of two one-dimensional operands of n and k elements broadcast
BroadcastOK(n, k) == n = k \/ n = 1 \/ k = 1
\* and to an array of this many elements
BroadcastLen(n, k) == IF n = 1 THEN k ELSE n
\* element i of a in an operation broadcast with another operand
At(a, i) == IF Len(a) = 1 THEN a[1] ELSE a[i]
\* a scalar or an array as an operand: a scalar broadcasts as one element does
Operand(x) == IF x.t = "array" THEN x.v ELSE <<x.v>>

\* np.abs(a) and np.abs(a - x) for a scalar x
ArrAbs(a) == [i \in 1..Len(a) |-> FAbs(a[i])]
AbsDev(a, x) == [i \in 1..Len(a) |-> FAbs(FSub(a[i], x))]

(***************************************************************************)
(* metric.py                                                               *)
(***************************************************************************)
\* _u: (delta - m) / (c * mad), elementwise
_u(delta, m, mad, c) ==
  [i \in 1..Len(delta) |-> FDiv(FSub(delta[i], m), FMul(c, mad))]

\* lines 22-24 of _cal_params, for the float m
CalParamsAt(delta, c, m) ==
  [m |-> m, u |-> _u(delta, m, Median(AbsDev(delta, m)), c)]

\* _cal_params(delta, c, m): (m, u), with m the median of delta when None
_cal_params(delta, c, m) ==
  CalParamsAt(delta, c, IF m = None THEN Median(delta) ELSE m.v)

\* the parameters of _cal_params, in order, and their defaults (line 19)
CalParamsNames == <<"delta", "c", "m">>
CalParamsDefaults == [c |-> Scalar(F(6)), m |-> None]

\* the parameters that n positional arguments give a value to
ByPosition(n) == {CalParamsNames[i] : i \in 1..Min(n, Len(CalParamsNames))}
Position(p) == CHOOSE i \in 1..Len(CalParamsNames) : CalParamsNames[i] = p

\* Python's binding of a call _cal_params(*pos, **kw): a TypeError when more
\* positional arguments than parameters are given, when a keyword names no
\* parameter, when a parameter gets a value by position and by keyword
\* ("got multiple values for argument"), or when one without default gets none
BindCalParams(pos, kw) ==
  IF \/ Len(pos) > Len(CalParamsNames)
     \/ \E p \in DOMAIN kw : p \notin ByPosition(Len(CalParamsNames))
     \/ \E p \in DOMAIN kw : p \in ByPosition(Len(pos))
     \/ \E p \in ByPosition(Len(CalParamsNames)) :
          /\ p \notin ByPosition(Len(pos))
          /\ p \notin DOMAIN kw
          /\ p \notin DOMAIN CalParamsDefaults
  THEN [exc |-> "TypeError"]
  ELSE [exc |-> "",
        args |-> [p \in ByPosition(Len(CalParamsNames)) |->
                    IF p \in ByPosition(Len(pos)) THEN pos[Position(p)]
                    ELSE IF p \in DOMAIN kw THEN kw[p]
                    ELSE CalParamsDefaults[p]]]

\* the call made with the parameters bound: the exception, or (m, u)
CallBound(bound) ==
  IF bound.exc # "" THEN bound
  ELSE [exc |-> "",
        val |-> _cal_params(bound.args.delta.v, bound.args.c.v, bound.args.m)]

\* a call of _cal_params as Python makes it
CallCalParams(pos, kw) == CallBound(BindCalParams(pos, kw))

\* MAD: the median of |delta - m| for m the median of |delta|
MAD(delta) == Median(AbsDev(delta, Median(ArrAbs(delta))))

\* 1 - u*u
OneMinusSq(x) == FSub(F(1), FMul(x, x))

\* sigu = np.abs(u) < 1.
Sigu(u) == [i \in 1..Len(u) |-> FLt(FAbs(u[i]), F(1))]

\* (d - m)*w*w and w*w for w = 1 - u*u
WeightedDev(dm, w) == FMul(FMul(dm, w), w)
Weight(w) == FMul(w, w)

\* lines 50 and 68: b = m + sum((d-m)*(1-u*u)*(1-u*u)) / sum((1-u*u)*(1-u*u))
CenterOf(d, u, m) ==
  FAdd(m, FDiv(Sum([i \in 1..Len(d) |-> WeightedDev(FSub(d[i], m), OneMinusSq(u[i]))]),
               Sum([i \in 1..Len(u) |-> Weight(OneMinusSq(u[i]))])))

\* lines 49-50: d, u = delta[sigu], u[sigu], and b
Selected(d, u, m) == [d |-> d, u |-> u, b |-> CenterOf(d, u, m)]
CenterIn(delta, m, u, sigu) == Selected(Select(delta, sigu), Select(u, sigu), m)

\* lines 48-50 and 66-68: the elements with |u| < 1 and the center b they give
Center(delta, m, u) == CenterIn(delta, m, u, Sigu(u))

\* N*(d-m)*(d-m)*(1-u*u)**4 for dm = d - m: a value for each one ** may give
ScatterTerm(n, dm, w) == {FMul(FMul(FMul(F(n), dm), dm), p) : p \in FPow4(w)}

\* the arrays that take each element from the set at its place in ts
RECURSIVE Choices(_)
Choices(ts) ==
  IF ts = <<>> THEN {<<>>}
  ELSE {Append(c, t) : c \in Choices(SubSeq(ts, 1, Len(ts) - 1)), t \in ts[Len(ts)]}

\* np.sum of an array that has one of the values of ts[i] at each place i
Sums(ts) == {Sum(c) : c \in Choices(ts)}

\* sqrt(sum(N*(d-m)*(d-m)*(1-u*u)**4)): a value for each sum the terms may
\* have
ScatterRoots(n, d, u, m) ==
  UNION {{FSqrt(t) : t \in Sums(ts)} :
           ts \in {[i \in 1..Len(d) |->
                      ScatterTerm(n, FSub(d[i], m), OneMinusSq(u[i]))]}}

\* ScatterDen without np.abs
ScatterDenSigned(x) == FMul(OneMinusSq(x), FSub(F(1), FMul(FMul(F(5), x), x)))

\* abs((1-u*u)*(1-5*u*u))
ScatterDen(x) == FAbs(FMul(OneMinusSq(x), FSub(F(1), FMul(FMul(F(5), x), x))))

\* the scalar root divided by abs((1-u*u)*(1-5*u*u)), elementwise
ScatterOver(root, u) == [i \in 1..Len(u) |-> FDiv(root, ScatterDen(u[i]))]

\* line 69: sqrt(sum(N*(d-m)*(d-m)*(1-u*u)**4)) / abs((1-u*u)*(1-5*u*u)), an
\* array of as many elements as d and u; the arrays a build may give
Scatter(n, d, u, m) == {ScatterOver(root, u) : root \in ScatterRoots(n, d, u, m)}

\* outlier_rate with < for >: the rate of the inliers
outlier_rate_below(delta, threshold) ==
  FDiv(F(CountTrue([i \in 1..Len(delta) |-> FLt(FAbs(delta[i]), threshold)])),
       F(Len(delta)))

\* outlier_rate: count(|delta| > threshold) / len(delta)
outlier_rate(delta, threshold) ==
  FDiv(F(CountTrue([i \in 1..Len(delta) |-> FGt(FAbs(delta[i]), threshold)])),
       F(Len(delta)))

\* loss with delta for delta*delta
loss_unsquared(delta, gamma) ==
  [i \in 1..Len(delta) |->
     FSub(F(1), FDiv(F(1), FAdd(F(1), FDiv(delta[i], FMul(gamma, gamma)))))]

\* loss: 1 - 1/(1 + (delta*delta)/(gamma*gamma)), elementwise
loss(delta, gamma) ==
  [i \in 1..Len(delta) |->
     FSub(F(1), FDiv(F(1), FAdd(F(1), FDiv(FMul(delta[i], delta[i]),
                                           FMul(gamma, gamma)))))]

\* how a call ends
Running == [st |-> "none"]
Returned(v) == [st |-> "returned", val |-> v]
Raised(e) == [st |-> "raised", exc |-> e]

\* lines 51-53 of biweight_mean with the new b: what _cal_params(delta, b, c=c)
\* gives, and the test |b - b0| / b < threshold
\* m and u stay as lines 49-50 left them when the call raises: m as it was,
\* u the elements kept
MeanTest(bn, un, b0, cp, threshold) ==
  [b |-> bn, exc |-> cp.exc,
   m |-> IF cp.exc = "" THEN Scalar(cp.val.m) ELSE None,
   u |-> IF cp.exc = "" THEN Array(cp.val.u) ELSE Array(un),
   conv |-> FLt(FDiv(FAbs(FSub(bn, b0)), bn), threshold)]

MeanRecenter(delta, ctr, b0, c, threshold) ==
  MeanTest(ctr.b, ctr.u, b0,
           CallCalParams(<<Array(delta), Scalar(ctr.b)>>, [c |-> Scalar(c)]),
           threshold)

\* lines 47-53, one iteration of biweight_mean from the locals m, u, b
MeanStep(delta, m, u, b0, c, threshold) ==
  MeanRecenter(delta, Center(delta, m, u), b0, c, threshold)

\* line 71, the truth of np.abs(s - s0)/s < threshold for the array s and
\* the scalar or array s0: "ValueError" when the shapes do not broadcast or
\* the array has more than one element (or none, under a strict build)
ConvTest(sv, s0v, threshold, strictBuild) ==
  IF ~BroadcastOK(Len(sv), Len(s0v)) THEN "ValueError"
  ELSE IF BroadcastLen(Len(sv), Len(s0v)) > 1 THEN "ValueError"
  ELSE IF BroadcastLen(Len(sv), Len(s0v)) = 0
  THEN (IF strictBuild THEN "ValueError" ELSE "false")
  ELSE IF FLt(FDiv(FAbs(FSub(sv[1], s0v[1])), sv[1]), threshold)
  THEN "true" ELSE "false"

\* lines 70-72 of biweight_scatter with the new b and s
ScatterTest(bn, un, sn, s0, cp, threshold, strictBuild) ==
  [b |-> bn, s |-> sn, exc |-> cp.exc,
   m |-> IF cp.exc = "" THEN Scalar(cp.val.m) ELSE None,
   u |-> IF cp.exc = "" THEN Array(cp.val.u) ELSE Array(un),
   conv |-> IF cp.exc # "" THEN cp.exc
            ELSE ConvTest(sn, Operand(s0), threshold, strictBuild)]

\* lines 69-72 for each s that line 69 may give
ScatterTests(bn, un, sns, s0, cp, threshold, strictBuild) ==
  {ScatterTest(bn, un, sn, s0, cp, threshold, strictBuild) : sn \in sns}

ScatterRecenter(delta, m, ctr, s0, c, threshold, strictBuild) ==
  ScatterTests(ctr.b, ctr.u, Scatter(Len(delta), ctr.d, ctr.u, m), s0,
               CallCalParams(<<Array(delta)>>, [m |-> Scalar(ctr.b), c |-> Scalar(c)]),
               threshold, strictBuild)

\* lines 65-72, one iteration of biweight_scatter from the locals m, u, s:
\* what it may give
ScatterStep(delta, m, u, s0, c, threshold, strictBuild) ==
  ScatterRecenter(delta, m, Center(delta, m, u), s0, c, threshold, strictBuild)

\* the comparisons np.abs(delta - b) > nsigma*s, broadcast to n elements
Outliers(d, b, sa, nsigma, n) ==
  [i \in 1..n |-> FGt(FAbs(FSub(At(d, i), b)), FMul(nsigma, At(sa, i)))]

\* lines 94-96 of biweight_outlier_rate, with the b and s that
\* biweight_scatter returned: count(|delta - b| > nsigma*s) / len(delta), a
\* ValueError when delta and s do not broadcast
RateOf(d, b, sa, nsigma) ==
  IF ~BroadcastOK(Len(d), Len(sa)) THEN Raised("ValueError")
  ELSE Returned(Scalar(FDiv(
         F(CountTrue(Outliers(d, b, sa, nsigma, BroadcastLen(Len(d), Len(sa))))),
         F(Len(d)))))

Rate(d, bv, sv, nsigma) == RateOf(d, bv.v, Operand(sv), nsigma)

(***************************************************************************)
(* One call of a function of the module, made by a caller that holds the   *)
(* array delta.  biweight_mean and biweight_scatter run their loop one     *)
(* iteration a step; MAD and outlier_rate are called a second time, on     *)
(* arg.k * delta and with the threshold arg.t2.                            *)
(***************************************************************************)
VARIABLES
  pc,        \* "call", "mean_loop", "scatter_loop", "rate", "second", "done"
  fn,        \* the function called
  delta,     \* the caller's array
  delta0,    \* the array as the caller passed it
  arg,       \* the other arguments of the call
  strict,    \* the numpy build: bool() of an empty array raises (numpy >= 2.2)
             \* or is False with a DeprecationWarning
  m, u, b, s, s0,   \* the locals of biweight_mean and biweight_scatter
  it,        \* the iterations of the loop begun
  ret,       \* how the call ended: the value returned or the exception raised
  ret2       \* the same for the second call

vars == <<pc, fn, delta, delta0, arg, strict, m, u, b, s, s0, it, ret, ret2>>

\* the longest sample, and the most iterations asked for
MaxLen == 3
MaxIter == 2

\* the elements of the samples
Elems == {F(0), F(1), F(6)}
Samples == UNION {[1..n -> Elems] : n \in 1..MaxLen}
\* the sample of the scenario of MAD
Scenario == <<F(-1), F(-1), F(-1), F(1), F(1), F(1)>>
\* the elements of the arrays given to loss, the largest 2^27 and the
\* smallest 2^-27, and the arrays: one element or two
LossElems == {F(0), F(1), F(-1), F(3), Fx(1, 27), Fx(1, -27)}
LossSamples == [{1} -> LossElems] \cup [{1, 2} -> LossElems]
\* 1e-3 (0x1.0624dd2f1a9fcp-10) and 0.15 (0x1.3333333333333p-3), the defaults
\* of threshold and of gamma: the floats nearest to 1/1000 and to 15/100
Milli == [k |-> "fin", s |-> 0, m |-> <<27263, 27000, 25165, 32>>, e |-> -60]
Gamma015 == [k |-> "fin", s |-> 0, m |-> <<13107, 26214, 19660, 153>>, e |-> -55]
Gammas == {Gamma015, F(1), F(-2), Fx(1, -600)}
Thresholds == {Gamma015, F(1), F(6)}
Scales == {F(-2), F(0), Fx(1, -1), F(1), F(3)}
\* the largest finite float, (2^53 - 1) * 2^971
MaxFloat == [k |-> "fin", s |-> 0, m |-> <<32767, 32767, 32767, 255>>, e |-> 971]
\* samples of MAD at the ends of the range of the floats, where a sum
\* overflows and a mean underflows, and one of elements below zero
ExtremeElems == {F(0), MaxFloat, Fx(1, EMin)}
ExtremeSamples == [{1} -> ExtremeElems] \cup [{1, 2} -> ExtremeElems]
Skewed == <<F(-6), F(-1), F(0)>>
\* the scales k for which k * d is a sample too, of finite elements
FiniteScales(d) == {k \in Scales : \A i \in 1..Len(d) : IsFin(FMul(k, d[i]))}

Args(niter, c, nsigma, gamma, k, t1, t2) ==
  [niter |-> niter, threshold |-> Milli, c |-> c, nsigma |-> nsigma,
   gamma |-> gamma, k |-> k, t1 |-> t1, t2 |-> t2]

NoArgs == Args(0, F(6), F(2), Gamma015, F(1), Gamma015, Gamma015)

\* the calls made: the function, the sample, the arguments, the build
Calls ==
  UNION {
    UNION {{[fn |-> "MAD", delta |-> d, arg |-> [NoArgs EXCEPT !.k = k],
             strict |-> FALSE] : k \in FiniteScales(d)} :
             d \in Samples \cup ExtremeSamples \cup {Scenario, Skewed}},
    {[fn |-> "biweight_mean", delta |-> d,
      arg |-> [NoArgs EXCEPT !.niter = n, !.c = c], strict |-> FALSE] :
       d \in Samples, n \in 0..MaxIter, c \in {F(6), F(1)}},
    {[fn |-> f, delta |-> d,
      arg |-> [NoArgs EXCEPT !.niter = n, !.c = c], strict |-> st] :
       f \in {"biweight_scatter", "biweight_outlier_rate"},
       d \in Samples, n \in 0..MaxIter, c \in {F(9), F(1)}, st \in BOOLEAN},
    {[fn |-> "outlier_rate", delta |-> d,
      arg |-> [NoArgs EXCEPT !.t1 = t1, !.t2 = t2], strict |-> FALSE] :
       d \in Samples, t1 \in Thresholds, t2 \in Thresholds},
    {[fn |-> "loss", delta |-> d, arg |-> [NoArgs EXCEPT !.gamma = g], strict |-> FALSE] :
       d \in LossSamples, g \in Gammas}
  }

Init ==
  \E call \in Calls :
    /\ pc = "call"
    /\ fn = call.fn
    /\ delta = call.delta
    /\ delta0 = call.delta
    /\ arg = call.arg
    /\ strict = call.strict
    /\ m = None /\ u = None /\ b = None /\ s = None /\ s0 = None
    /\ it = 0
    /\ ret = Running
    /\ ret2 = Running

\* MAD(delta), and then MAD(k * delta)
CallMAD ==
  /\ pc = "call" /\ fn = "MAD"
  /\ ret' = Returned(Scalar(MAD(delta)))
  /\ pc' = "second"
  /\ UNCHANGED <<fn, delta, delta0, arg, strict, m, u, b, s, s0, it, ret2>>

CallMADScaled ==
  /\ pc = "second" /\ fn = "MAD"
  /\ ret2' = Returned(Scalar(MAD([i \in 1..Len(delta) |-> FMul(arg.k, delta[i])])))
  /\ pc' = "done"
  /\ UNCHANGED <<fn, delta, delta0, arg, strict, m, u, b, s, s0, it, ret>>

\* the locals m and u set from what _cal_params returned
Recentered(cp) ==
  /\ m' = Scalar(cp.val.m)
  /\ u' = Array(cp.val.u)

\* lines 44-45 and 61-63: m, u = _cal_params(delta, c=c), and b, s = 0, 0;
\* _cal_params gives delta itself to np.median
Enter ==
  /\ pc = "call"
  /\ fn \in {"biweight_mean", "biweight_scatter", "biweight_outlier_rate"}
  /\ Recentered(CallCalParams(<<Array(delta)>>, [c |-> Scalar(arg.c)]))
  /\ delta' = MedianArg(delta)
  /\ b' = Scalar(F(0))
  /\ s' = IF fn = "biweight_mean" THEN None ELSE Scalar(F(0))
  /\ pc' = IF fn = "biweight_mean" THEN "mean_loop" ELSE "scatter_loop"
  /\ UNCHANGED <<fn, delta0, arg, strict, s0, it, ret, ret2>>

\* MeanMore off by one: the body runs once more than niter times
MeanMoreInclusive == it <= arg.niter

\* the loop of biweight_mean goes on while fewer than niter iterations began
MeanMore == it < arg.niter

\* the iteration of biweight_mean that gave r: an exception ends the call, a
\* test that holds returns b, and else the loop goes on
MeanIterated(r) ==
  /\ s0' = b
  /\ b' = Scalar(r.b)
  /\ m' = IF r.exc = "" THEN r.m ELSE m
  /\ u' = r.u
  /\ ret' = IF r.exc # "" THEN Raised(r.exc)
            ELSE IF r.conv THEN Returned(Scalar(r.b))
            ELSE ret
  /\ pc' = IF r.exc # "" \/ r.conv THEN "done" ELSE pc

\* lines 47-53, one iteration of biweight_mean: the new b, then
\* _cal_params(delta, b, c=c), then the test |b - b0| / b < threshold
MeanIter ==
  /\ pc = "mean_loop" /\ MeanMore
  /\ MeanIterated(MeanStep(delta, m.v, u.v, b.v, arg.c, arg.threshold))
  /\ it' = it + 1
  /\ UNCHANGED <<fn, delta, delta0, arg, strict, s, ret2>>

\* line 54: the loop is over, b is returned
MeanExhaust ==
  /\ pc = "mean_loop" /\ ~MeanMore
  /\ ret' = Returned(b)
  /\ pc' = "done"
  /\ UNCHANGED <<fn, delta, delta0, arg, strict, m, u, b, s, s0, it, ret2>>

\* the loop of biweight_scatter goes on while fewer than niter iterations began
ScatterMore == it < arg.niter

\* where a call of biweight_scatter that returns goes on: the caller is
\* done, biweight_outlier_rate goes on at line 94
AfterScatter == IF fn = "biweight_scatter" THEN "done" ELSE "rate"

\* the iteration of biweight_scatter that gave r: an exception ends the
\* call, a test that holds returns (b, s), and else the loop goes on
ScatterIterated(r) ==
  /\ s0' = s
  /\ b' = Scalar(r.b)
  /\ s' = Array(r.s)
  /\ m' = IF r.exc = "" THEN r.m ELSE m
  /\ u' = r.u
  /\ ret' = IF r.conv \notin {"true", "false"} THEN Raised(r.conv)
            ELSE IF r.conv = "true" /\ fn = "biweight_scatter"
            THEN Returned([b |-> Scalar(r.b), s |-> Array(r.s)])
            ELSE ret
  /\ pc' = IF r.conv \notin {"true", "false"} THEN "done"
           ELSE IF r.conv = "true" THEN AfterScatter
           ELSE pc

\* lines 65-72, one iteration of biweight_scatter
ScatterIter ==
  /\ pc = "scatter_loop" /\ ScatterMore
  /\ \E r \in ScatterStep(delta, m.v, u.v, s, arg.c, arg.threshold, strict) :
       ScatterIterated(r)
  /\ it' = it + 1
  /\ UNCHANGED <<fn, delta, delta0, arg, strict, ret2>>

\* line 73: the loop is over, (b, s) is returned
ScatterExhaust ==
  /\ pc = "scatter_loop" /\ ~ScatterMore
  /\ ret' = IF fn = "biweight_scatter" THEN Returned([b |-> b, s |-> s]) ELSE ret
  /\ pc' = AfterScatter
  /\ UNCHANGED <<fn, delta, delta0, arg, strict, m, u, b, s, s0, it, ret2>>

\* lines 94-96 of biweight_outlier_rate
RateFinish ==
  /\ pc = "rate"
  /\ ret' = Rate(delta, b, s, arg.nsigma)
  /\ pc' = "done"
  /\ UNCHANGED <<fn, delta, delta0, arg, strict, m, u, b, s, s0, it, ret2>>

\* outlier_rate(delta, t1), and then outlier_rate(delta, t2)
CallOutlierRate ==
  /\ pc = "call" /\ fn = "outlier_rate"
  /\ ret' = Returned(Scalar(outlier_rate(delta, arg.t1)))
  /\ pc' = "second"
  /\ UNCHANGED <<fn, delta, delta0, arg, strict, m, u, b, s, s0, it, ret2>>

CallOutlierRateAgain ==
  /\ pc = "second" /\ fn = "outlier_rate"
  /\ ret2' = Returned(Scalar(outlier_rate(delta, arg.t2)))
  /\ pc' = "done"
  /\ UNCHANGED <<fn, delta, delta0, arg, strict, m, u, b, s, s0, it, ret>>

CallLoss ==
  /\ pc = "call" /\ fn = "loss"
  /\ ret' = Returned(Array(loss(delta, arg.gamma)))
  /\ pc' = "done"
  /\ UNCHANGED <<fn, delta, delta0, arg, strict, m, u, b, s, s0, it, ret2>>

Next ==
  \/ CallMAD
  \/ CallMADScaled
  \/ Enter
  \/ MeanIter
  \/ MeanExhaust
  \/ ScatterIter
  \/ ScatterExhaust
  \/ RateFinish
  \/ CallOutlierRate
  \/ CallOutlierRateAgain
  \/ CallLoss

Spec == Init /\ [][Next]_vars

(***************************************************************************)
(* The claims.                                                             *)
(***************************************************************************)
Done(f) == pc = "done" /\ fn = f

\* the median absolute deviation of a sample about its median
MadAboutMedian(d) == Median(AbsDev(d, Median(d)))

\* C1: for a sample whose median absolute deviation about its median is
\* nonzero and niter >= 1, biweight_mean ends by returning the number b of its
\* last iteration, and never by an error
C1_MeanReturns ==
  (Done("biweight_mean") /\ arg.niter >= 1 /\ ~IsZero(MadAboutMedian(delta0)))
    => (ret.st = "returned" /\ ret.val = b /\ it <= arg.niter)

\* C2: for niter >= 1, biweight_scatter ends after at most niter iterations
\* by returning a pair (b, s), and never by an error
C2_ScatterReturns ==
  (Done("biweight_scatter") /\ arg.niter >= 1)
    => (ret.st = "returned" /\ ret.val = [b |-> b, s |-> s] /\ it <= arg.niter)

\* how many elements of d lie further than nsigma * sv from bv
CountBeyond(d, bv, sv, nsigma) ==
  Cardinality({i \in 1..Len(d) : FGt(FAbs(FSub(d[i], bv)), FMul(nsigma, sv))})

\* C3: biweight_outlier_rate returns one number, the count of the elements
\* with |delta_i - b| > nsigma*s divided by len(delta), which lies in [0, 1]
C3_RateReturns ==
  Done("biweight_outlier_rate")
    => /\ ret.st = "returned"
       /\ ret.val.t = "scalar"
       /\ Len(Operand(s)) = 1
       /\ FEq(ret.val.v,
              FDiv(F(CountBeyond(delta0, b.v, Operand(s)[1], arg.nsigma)),
                   F(Len(delta0))))
       /\ FGe(ret.val.v, F(0)) /\ FLe(ret.val.v, F(1))

\* C4 as claimed: MAD(k*delta) = |k| * MAD(delta) for every scalar k
C4_ScaleAnyK ==
  Done("MAD") => FEq(ret2.val.v, FMul(FAbs(arg.k), ret.val.v))

\* x + y and x * y for finite x and y as numbers, not rounded
SumOf(x, y) ==
  IF IsZero(x) THEN y
  ELSE IF IsZero(y) THEN x
  ELSE IF x.s = y.s
  THEN Canon(x.s, BAdd(BShl(x.m, x.e - Min(x.e, y.e)), BShl(y.m, y.e - Min(x.e, y.e))),
             Min(x.e, y.e))
  ELSE IF BCmp(BShl(x.m, x.e - Min(x.e, y.e)), BShl(y.m, y.e - Min(x.e, y.e))) = 0
  THEN Zero(0)
  ELSE IF BCmp(BShl(x.m, x.e - Min(x.e, y.e)), BShl(y.m, y.e - Min(x.e, y.e))) > 0
  THEN Canon(x.s, BSub(BShl(x.m, x.e - Min(x.e, y.e)), BShl(y.m, y.e - Min(x.e, y.e))),
             Min(x.e, y.e))
  ELSE Canon(y.s, BSub(BShl(y.m, y.e - Min(x.e, y.e)), BShl(x.m, x.e - Min(x.e, y.e))),
             Min(x.e, y.e))

ProductOf(x, y) ==
  IF IsZero(x) \/ IsZero(y) THEN Zero(0)
  ELSE Canon(Xor(x.s, y.s), BMul(x.m, y.m), x.e + y.e)

\* the float r is the number x
Is(r, x) ==
  /\ IsFin(r)
  /\ IF IsZero(r) \/ IsZero(x) THEN IsZero(r) /\ IsZero(x)
     ELSE r.s = x.s /\ r.m = x.m /\ r.e = x.e

\* the sum of two numbers whose exponents are further apart than AlignMax
\* has more bits than a float
Near(x, y) == IsZero(x) \/ IsZero(y) \/ (x.e - y.e <= AlignMax /\ y.e - x.e <= AlignMax)
\* the float64 operation neither rounds nor overflows
ExactAdd(x, y) == IsFin(x) /\ IsFin(y) /\ Near(x, y) /\ Is(FAdd(x, y), SumOf(x, y))
ExactMul(x, y) == IsFin(x) /\ IsFin(y) /\ Is(FMul(x, y), ProductOf(x, y))
ExactDiv(x, n) == IsFin(x) /\ IsFin(FDiv(x, F(n))) /\ Is(x, ProductOf(FDiv(x, F(n)), F(n)))

\* np.median of a rounds nowhere: the sum of its middle elements and the
\* division by their number
ExactMedian(a) ==
  /\ \A i \in 1..Len(a) : IsFin(a[i])
  /\ Len(a) % 2 = 0 => ExactAdd(Sort(a)[Len(a) \div 2], Sort(a)[(Len(a) \div 2) + 1])
  /\ ExactDiv(Sum(MiddleSlice(Sort(a))), Len(MiddleSlice(Sort(a))))

\* MAD(d) rounds nowhere: the two medians and the differences d - m
ExactMAD(d) ==
  /\ ExactMedian(ArrAbs(d))
  /\ \A i \in 1..Len(d) : ExactAdd(d[i], FNeg(Median(ArrAbs(d))))
  /\ ExactMedian(AbsDev(d, Median(ArrAbs(d))))

\* no operation rounds or overflows: the products k*d[i], MAD(d), MAD(k*d)
\* and the product k*MAD(d)
ExactScaling(d, k) ==
  /\ \A i \in 1..Len(d) : ExactMul(k, d[i])
  /\ ExactMAD(d)
  /\ ExactMAD([i \in 1..Len(d) |-> FMul(k, d[i])])
  /\ ExactMul(k, MAD(d))

\* C4 as amended: MAD(k*delta) = k * MAD(delta) for every scalar k >= 0,
\* when no float64 operation of the two calls and of the two products rounds
\* or overflows
C4_ScaleNonNegK ==
  (Done("MAD") /\ FGe(arg.k, F(0)) /\ ExactScaling(delta0, arg.k))
    => FEq(ret2.val.v, FMul(arg.k, ret.val.v))

C4_Witness ==
  /\ Done("MAD") /\ arg.k = F(3) /\ ExactScaling(delta0, arg.k)
  /\ FGt(ret.val.v, F(0)) /\ FEq(ret2.val.v, FMul(F(3), ret.val.v))

\* why C4 needs the exactness, as states the calls reach: the mean of the
\* two middle elements overflows, MAD([max, max]) is inf and MAD of the half
\* of it 0; the mean of 0 and 2^-1074 underflows to 0, MAD([0, 2^-1074]) is 0
\* and MAD of three times it 2^-1073
C4_Overflows ==
  /\ Done("MAD") /\ delta0 = <<MaxFloat, MaxFloat>> /\ arg.k = Fx(1, -1)
  /\ ret.val.v = Inf(0) /\ ret2.val.v = F(0)
  /\ ~ExactScaling(delta0, arg.k)

C4_Underflows ==
  /\ Done("MAD") /\ delta0 = <<F(0), Fx(1, EMin)>> /\ arg.k = F(3)
  /\ ret.val.v = F(0) /\ ret2.val.v = Fx(1, EMin + 1)
  /\ ~ExactScaling(delta0, arg.k)

\* C5: with niter = 0 biweight_mean and biweight_scatter return their
\* initial values, 0 and (0, 0), finite numbers, and raise nothing
C5_ZeroIterations ==
  /\ (Done("biweight_mean") /\ arg.niter = 0)
       => (ret = Returned(Scalar(F(0))) /\ it = 0)
  /\ (Done("biweight_scatter") /\ arg.niter = 0)
       => (ret = Returned([b |-> Scalar(F(0)), s |-> Scalar(F(0))]) /\ it = 0)

C5_Witness ==
  /\ Done("biweight_mean") /\ arg.niter = 0
  /\ ret.st = "returned" /\ IsFin(ret.val.v) /\ Len(delta0) > 1

\* x is the r-th smallest element of a
IsRank(a, x, r) ==
  /\ \E i \in 1..Len(a) : FEq(a[i], x)
  /\ Cardinality({i \in 1..Len(a) : FLt(a[i], x)}) <= r - 1
  /\ Cardinality({i \in 1..Len(a) : FLe(a[i], x)}) >= r

\* x is the median of a: its middle element in order, or the mean of its two
\* middle elements when their number is even
IsMedianOf(x, a) ==
  IF Len(a) % 2 = 1 THEN IsRank(a, x, (Len(a) + 1) \div 2)
  ELSE \E i, j \in 1..Len(a) :
         /\ IsRank(a, a[i], Len(a) \div 2)
         /\ IsRank(a, a[j], (Len(a) \div 2) + 1)
         /\ FEq(x, FDiv(FAdd(a[i], a[j]), F(2)))

\* the elements of a and the means of two of them
Means(a) ==
  {a[i] : i \in 1..Len(a)}
    \cup {FDiv(FAdd(a[i], a[j]), F(2)) : i, j \in 1..Len(a)}

\* C6: MAD(delta) is the median of |delta - m0| for m0 the median of |delta|,
\* the median of an even number of values being the mean of the two middle
\* ones; MAD([-1,-1,-1,1,1,1]) is 1.0
C6_MADContract ==
  (fn = "MAD" /\ pc # "call")
    => /\ \E m0 \in Means(ArrAbs(delta0)) :
            /\ IsMedianOf(m0, ArrAbs(delta0))
            /\ IsMedianOf(ret.val.v, AbsDev(delta0, m0))
       /\ delta0 = Scenario => ret.val.v = F(1)

C6_Witness == Done("MAD") /\ delta0 = Scenario /\ ret.val.v = F(1)

\* C7: for thresholds t1 <= t2, outlier_rate(delta, t2) <= outlier_rate(delta, t1)
C7_RateMonotone ==
  (Done("outlier_rate") /\ FLe(arg.t1, arg.t2)) => FLe(ret2.val.v, ret.val.v)

C7_Witness ==
  /\ Done("outlier_rate") /\ FLt(arg.t1, arg.t2)
  /\ FLt(ret2.val.v, ret.val.v) /\ FGt(ret2.val.v, F(0))

\* C8 as claimed: for gamma # 0 every element of loss(delta, gamma) lies in
\* [0, 1), is 0 exactly when the element of delta is 0, and is larger for an
\* element of delta of larger magnitude
C8_LossStrict ==
  (Done("loss") /\ ~IsZero(arg.gamma))
    => \A i \in 1..Len(delta0) :
         /\ FGe(ret.val.v[i], F(0)) /\ FLt(ret.val.v[i], F(1))
         /\ IsZero(ret.val.v[i]) <=> IsZero(delta0[i])
         /\ \A j \in 1..Len(delta0) :
              FLt(FAbs(delta0[i]), FAbs(delta0[j]))
                => FLt(ret.val.v[i], ret.val.v[j])

\* gamma*gamma is a finite float that is not zero
SquareInRange(g) == IsFin(FMul(g, g)) /\ ~IsZero(FMul(g, g))

\* C8 as amended: when gamma*gamma neither underflows to 0 nor overflows,
\* every element of loss(delta, gamma) lies in [0, 1], is 0 when the element
\* of delta is 0, and is no smaller for an element of delta of no smaller
\* magnitude
C8_LossBounded ==
  (Done("loss") /\ SquareInRange(arg.gamma))
    => \A i \in 1..Len(delta0) :
         /\ FGe(ret.val.v[i], F(0)) /\ FLe(ret.val.v[i], F(1))
         /\ IsZero(delta0[i]) => IsZero(ret.val.v[i])
         /\ \A j \in 1..Len(delta0) :
              FLe(FAbs(delta0[i]), FAbs(delta0[j]))
                => FLe(ret.val.v[i], ret.val.v[j])

\* a loss of exactly 1.0 beside one strictly between 0 and 1
C8_Witness ==
  /\ Done("loss") /\ arg.gamma = F(1) /\ Len(delta0) = 2
  /\ ret.val.v[1] = F(1)
  /\ FGt(ret.val.v[2], F(0)) /\ FLt(ret.val.v[2], F(1))

\* C9: every scale estimate is non-negative: what MAD returns, and every
\* element of s in biweight_scatter, the initial 0 and the s returned too
C9_ScaleNonNegative ==
  /\ (fn = "MAD" /\ ret.st = "returned") => FGe(ret.val.v, F(0))
  /\ (fn = "MAD" /\ ret2.st = "returned") => FGe(ret2.val.v, F(0))
  /\ (fn \in {"biweight_scatter", "biweight_outlier_rate"} /\ s # None)
       => \A i \in 1..Len(Operand(s)) : FGe(Operand(s)[i], F(0))
  /\ (fn = "biweight_scatter" /\ ret.st = "returned")
       => \A i \in 1..Len(Operand(ret.val.s)) : FGe(Operand(ret.val.s)[i], F(0))

\* an s of several elements, computed from a u beyond 1/sqrt(5), where
\* 1 - 5*u*u is negative
C9_Witness ==
  /\ fn = "biweight_scatter" /\ it = 1 /\ s.t = "array" /\ Len(s.v) = 3
  /\ delta0 = <<F(0), F(1), F(6)>> /\ arg.c = F(9)
  /\ \A i \in 1..3 : FGt(s.v[i], F(0))

\* C10: no function changes the array it is given, at any step of any call,
\* returned or raised
C10_InputUnchanged == delta = delta0

\* a call of biweight_scatter that filtered an unsorted sample in two
\* iterations and returned
C10_Witness ==
  /\ Done("biweight_scatter") /\ it = 2 /\ ret.st = "returned"
  /\ delta0 = <<F(6), F(1), F(0)>> /\ delta = delta0
  /\ Len(Operand(s)) < Len(delta)

=============================================================================
